---- MODULE Spec2Model ----
(***************************************************************************)
(* Model of the two page generators of the pet-grooming repository:        *)
(*   src/generate_pages.py          entry point build_site     ("lenient") *)
(*   src/scripts/generate_pages.py  entry point generate_pages ("strict")  *)
(* A run reads the detail CSV into an image mapping, reads the listing CSV *)
(* row by row into Store records, and writes the pages under docs/.        *)
(*                                                                         *)
(* A Python str is a sequence of characters (one-character strings; the    *)
(* two separator glyphs are written "dot" = U+22C5 and "mid" = U+00B7, a   *)
(* CJK ideograph is written "cjk").  A Python value is a tagged record:    *)
(* NoneV, PyStr(s), PyInt(n), PyFloat(m, e) (the number m / 10^e).         *)
(***************************************************************************)
EXTENDS Integers, Sequences, FiniteSets, TLC

VARIABLES
    variant,      \* which entry point runs: "build_site" or "generate_pages"
    corpus,       \* the family of input files this run reads
    dataExists,   \* the listing CSV exists
    detailExists, \* the detail CSV exists
    pc,           \* position of the run
    err,          \* the exception that ended the run, or "none"
    images,       \* load_images' mapping: set of <<key, value>> pairs
    detail_read,  \* the detail rows read so far, in file order
    read,         \* the listing rows read so far, in file order
    stores,       \* the Store records built so far
    origin,       \* origin[i]: index in read of the row stores[i] was built from
    seen_slugs,   \* load_stores' seen_slugs
    idx,          \* index of the next store page to write
    run,          \* number of this run
    fs            \* output tree: path -> number of the run that last wrote it

vars == <<variant, corpus, dataExists, detailExists, pc, err, images, detail_read,
          read, stores, origin, seen_slugs, idx, run, fs>>

----------------------------------------------------------------------------
(* Bounds of the model *)

MaxRows == 3
MaxJoinRows == 2
MaxDetailRows == 2
MaxBulk == 101
MaxRuns == 2

----------------------------------------------------------------------------
(* Python values *)

NoneV == [t |-> "None"]
PyStr(s) == [t |-> "str", s |-> s]
PyInt(n) == [t |-> "int", n |-> n]
PyFloat(m, e) == [t |-> "float", m |-> m, e |-> e]

IsNone(v) == v.t = "None"
IsStr(v) == v.t = "str"

\* Python truthiness of a value
Truthy(v) ==
    CASE v.t = "None" -> FALSE
      [] v.t = "str" -> v.s # <<>>
      [] v.t = "int" -> v.n # 0
      [] OTHER -> v.m # 0

\* Python's `v or None`
OrNone(v) == IF Truthy(v) THEN v ELSE NoneV

----------------------------------------------------------------------------
(* Characters and str methods *)

Whitespace == {" ", "\t", "\n"}
DigitChars == <<"0", "1", "2", "3", "4", "5", "6", "7", "8", "9">>
LowerChars == <<"a", "b", "c", "d", "e", "f", "g", "h", "i", "j", "k", "l", "m",
                "n", "o", "p", "q", "r", "s", "t", "u", "v", "w", "x", "y", "z">>
UpperChars == <<"A", "B", "C", "D", "E", "F", "G", "H", "I", "J", "K", "L", "M",
                "N", "O", "P", "Q", "R", "S", "T", "U", "V", "W", "X", "Y", "Z">>
Range(f) == {f[i] : i \in DOMAIN f}
IsDigit(c) == c \in Range(DigitChars)

RECURSIVE lstrip(_, _)
lstrip(s, chars) ==
    IF s # <<>> /\ Head(s) \in chars THEN lstrip(Tail(s), chars) ELSE s

RECURSIVE rstrip(_, _)
rstrip(s, chars) ==
    IF s # <<>> /\ s[Len(s)] \in chars
    THEN rstrip(SubSeq(s, 1, Len(s) - 1), chars)
    ELSE s

\* str.strip(chars); str.strip() is strip(s, Whitespace)
strip(s, chars) == rstrip(lstrip(s, chars), chars)

\* str.replace(ch, "")
replace(s, ch) == SelectSeq(s, LAMBDA c : c # ch)

startswith(s, prefix) ==
    Len(s) >= Len(prefix) /\ SubSeq(s, 1, Len(prefix)) = prefix

\* str.lower() on the characters of the model
lower(s) ==
    [i \in 1..Len(s) |->
        IF s[i] \in Range(UpperChars)
        THEN LowerChars[CHOOSE k \in 1..26 : UpperChars[k] = s[i]]
        ELSE s[i]]

\* str(n) for n >= 0
RECURSIVE str_int(_)
str_int(n) ==
    IF n < 10 THEN <<DigitChars[n + 1]>>
    ELSE str_int(n \div 10) \o <<DigitChars[(n % 10) + 1]>>

\* int(digits) for a non-empty sequence of ASCII digits
RECURSIVE int_str(_)
int_str(digits) ==
    IF digits = <<>> THEN 0
    ELSE 10 * int_str(SubSeq(digits, 1, Len(digits) - 1))
         + ((CHOOSE k \in 1..10 : DigitChars[k] = digits[Len(digits)]) - 1)

HTTP == <<"h", "t", "t", "p">>

----------------------------------------------------------------------------
(* Pure functions of the two scripts *)

\* [^a-zA-Z0-9\u4e00-\u9fff]
IsSlugChar(c) ==
    c \in Range(LowerChars) \cup Range(UpperChars) \cup Range(DigitChars) \cup {"cjk"}

RECURSIVE dropRun(_)
dropRun(s) == IF s # <<>> /\ ~IsSlugChar(Head(s)) THEN dropRun(Tail(s)) ELSE s

\* re.sub(r"[^a-zA-Z0-9\u4e00-\u9fff]+", "-", name)
RECURSIVE re_sub(_)
re_sub(s) ==
    IF s = <<>> THEN <<>>
    ELSE IF IsSlugChar(Head(s)) THEN <<Head(s)>> \o re_sub(Tail(s))
    ELSE <<"-">> \o re_sub(dropRun(s))

slug_base(name) ==
    LET base == lower(strip(re_sub(name), {"-"}))
    IN  IF base = <<>> THEN <<"s", "t", "o", "r", "e">> ELSE base

\* the while loop of slugify
RECURSIVE slug_loop(_, _, _, _)
slug_loop(base, slug, counter, existing) ==
    IF slug \in existing
    THEN slug_loop(base, base \o <<"-">> \o str_int(counter), counter + 1, existing)
    ELSE slug

\* slugify without its collision loop
slugify_nodedup(name, existing) == slug_base(name)

\* slugify(name, existing): the slug returned; the caller's set gains it
slugify(name, existing) ==
    LET base == slug_base(name) IN slug_loop(base, base, 2, existing)

\* f"{n:02d}"
format_02d(n) ==
    LET d == str_int(n) IN IF Len(d) < 2 THEN <<"0">> \o d ELSE d

\* f"store-{len(stores) + 1:02d}"
sequential_slug(n) == <<"s", "t", "o", "r", "e", "-">> \o format_02d(n)

\* clean_value(text) of src/generate_pages.py, text a str
clean_value(text) == strip(replace(replace(text, "dot"), "mid"), Whitespace)

\* clean_text(value) of src/scripts/generate_pages.py, value a Python value
clean_text(value) ==
    IF ~Truthy(value) THEN NoneV
    ELSE OrNone(PyStr(strip(lstrip(strip(value.s, Whitespace), {"dot"}), Whitespace)))

\* coerce_int(value), value a str
coerce_int(value) ==
    LET digits == SelectSeq(value, IsDigit)
    IN  IF digits # <<>> THEN PyInt(int_str(digits)) ELSE NoneV

\* coerce_float(value), value a str, for the decimal literals
\* digits [ "." digits ] and "." digits; anything else is a ValueError
coerce_float(value) ==
    LET dots == SelectSeq(value, LAMBDA c : c = ".")
        digits == SelectSeq(value, IsDigit)
    IN  IF /\ digits # <<>>
           /\ Len(dots) <= 1
           /\ Len(digits) + Len(dots) = Len(value)
        THEN PyFloat(int_str(digits),
                   IF dots = <<>> THEN 0
                   ELSE Len(value) - (CHOOSE k \in 1..Len(value) : value[k] = "."))
        ELSE NoneV

----------------------------------------------------------------------------
(* Input files.  A CSV row is a sequence of cells, a cell a str.  Both      *)
(* scripts read the same listing file: generate_pages.py by header name,    *)
(* scripts/generate_pages.py by position, which fixes the header's order.   *)

Header ==
    <<"c0", "hfpxzc href", "qBF1Pd", "MW4etd", "UY7F9", "W4Efsd", "W4Efsd (2)",
      "W4Efsd (3)", "W4Efsd (4)", "W4Efsd (5)", "lcr4fd href", "c11", "c12",
      "c13", "c14", "c15", "UsdlK", "ah5Ghc", "ah5Ghc (2)">>

DetailHeader == <<"hfpxzc href", "aoRNLd src">>

\* csv.DictReader's row.get(key, ""): a cell the row is too short for reads None
row_get(header, row, key) ==
    LET k == CHOOSE i \in 1..Len(header) : header[i] = key
    IN  IF k <= Len(row) THEN PyStr(row[k]) ELSE NoneV

\* csv.reader's row[k], k counted from 0
Cell(row, k) == row[k + 1]

E == <<>>
X0 == <<"x">>
A1 == <<"a">>
C1Text == <<"c">>
HTTP1 == HTTP \o <<"1">>
HTTP2 == HTTP \o <<"2">>
HTTP3 == HTTP \o <<"3">>
FTP == <<"f", "t", "p">>
IMG1 == <<"i", "1">>
IMG2 == <<"i", "2">>
R45 == <<"4", ".", "5">>
REV12 == <<"(", "1", "2", ")">>
Pad(s) == <<" ">> \o s \o <<" ">>

\* a row with a cell for every header column
FullRow(map_url, name, rating, review, text, website) ==
    <<X0, map_url, name, rating, review, text, E, text, text, text, website,
      E, E, E, E, E, text, text, <<"mid">>>>

Names ==
    { A1, <<"A", " ">>, <<"a", "-", "2">>, <<"!">>, E, <<"cjk", " ", "a">> }

NamesRows == { FullRow(HTTP1, n, R45, REV12, C1Text, E) : n \in Names }

RequiredRows ==
    { <<>>,
      <<X0, HTTP1>>,
      <<X0, HTTP1, A1>>,
      <<X0, HTTP1, E>>,
      SubSeq(FullRow(HTTP1, <<"b">>, R45, REV12, C1Text, HTTP1), 1, 11),
      FullRow(HTTP1, Pad(<<"b">>), R45, REV12, C1Text, E),
      FullRow(E, A1, R45, REV12, C1Text, E),
      FullRow(FTP, A1, R45, REV12, C1Text, E) }

CleanCells ==
    { E, <<" ">>, <<"dot", "a">>, <<"dot", " ", "dot", "a">>,
      <<"a", "mid", " ">>, <<" ", "dot">> }

CleanRows == { FullRow(HTTP1, A1, p, p, p, E) : p \in CleanCells }

ReviewCells ==
    { REV12, <<"(", "1", ",", "2", "3", "4", ")">>, <<"N", "/", "A">>, E,
      <<"0", "0", "7">>, Pad(<<"(", "3", ")">>) }

ReviewRows == { FullRow(HTTP1, A1, R45, p, C1Text, E) : p \in ReviewCells }

WebsiteCells ==
    { HTTP \o <<"s">>, Pad(HTTP), <<"w", "w", "w">>, <<"j", "s", ":">>, E,
      <<"h", "t", "t">> }

WebsiteRows == { FullRow(HTTP1, A1, R45, REV12, C1Text, p) : p \in WebsiteCells }

JoinRows ==
    { FullRow(m, A1, R45, REV12, C1Text, E) : m \in {HTTP1, Pad(HTTP2), HTTP3, E} }

BulkRows == { FullRow(HTTP1, A1, R45, REV12, C1Text, E) }

JoinDetailRows ==
    { <<HTTP1, IMG1>>, <<HTTP1, IMG2>>, <<Pad(HTTP2), Pad(IMG1)>>, <<E, IMG1>>,
      <<HTTP2, E>>, <<HTTP3>>, <<>> }

RerunRows == { FullRow(HTTP1, n, R45, REV12, C1Text, E) : n \in {A1, <<"b">>} }

RerunDetailRows == { <<HTTP1, IMG1>> }

Corpora ==
    {"names", "required", "clean", "review", "website", "join", "bulk", "rerun"}

DataRows(c) ==
    CASE c = "names" -> NamesRows
      [] c = "required" -> RequiredRows
      [] c = "clean" -> CleanRows
      [] c = "review" -> ReviewRows
      [] c = "website" -> WebsiteRows
      [] c = "join" -> JoinRows
      [] c = "rerun" -> RerunRows
      [] OTHER -> BulkRows

DetailRows(c) ==
    CASE c = "join" -> JoinDetailRows
      [] c = "rerun" -> RerunDetailRows
      [] OTHER -> {}

RowLimit(c) ==
    CASE c = "bulk" -> MaxBulk
      [] c \in {"join", "rerun"} -> MaxJoinRows
      [] OTHER -> MaxRows

----------------------------------------------------------------------------
(* The image mapping and the output tree *)

images_has(imgs, key) == \E p \in imgs : p[1] = key

\* dict.get(key)
images_get(imgs, key) ==
    IF images_has(imgs, key)
    THEN PyStr((CHOOSE p \in imgs : p[1] = key)[2])
    ELSE NoneV

\* the assignment keeping the first value of a key (dict.setdefault)
images_set_first(imgs, key, value) ==
    IF images_has(imgs, key) THEN imgs ELSE imgs \cup {<<key, value>>}

\* mapping[key] = value
images_set(imgs, key, value) == {p \in imgs : p[1] # key} \cup {<<key, value>>}

Path(kind) == <<kind, <<>>>>
SlugPath(kind, slug) == <<kind, slug>>

EmptyFs == [p \in {} |-> 0]

\* write_text: the file is created or replaced by run r
write_text(tree, p, r) ==
    [q \in DOMAIN tree \cup {p} |-> IF q = p THEN r ELSE tree[q]]

\* mkdir(exist_ok=True): an existing directory is left as it is
mkdir(tree, p, r) == IF p \in DOMAIN tree THEN tree ELSE write_text(tree, p, r)

\* ensure_assets of src/generate_pages.py
ensure_assets(tree, r) ==
    LET made == mkdir(mkdir(tree, Path("docs"), r), Path("docs/assets"), r)
    IN  IF Path("docs/assets/style.css") \in DOMAIN made
        THEN made
        ELSE write_text(made, Path("docs/assets/style.css"), r)

\* ensure_assets of src/scripts/generate_pages.py
scripts_ensure_assets(tree, r) ==
    mkdir(mkdir(tree, Path("docs"), r), Path("docs/assets"), r)

----------------------------------------------------------------------------
(* One listing row, as each script handles it.  The result is               *)
(* [kind |-> "raise"] (AttributeError), [kind |-> "skip"] or                *)
(* [kind |-> "store", store |-> the Store built].                           *)

Raise == [kind |-> "raise"]
Skip == [kind |-> "skip"]
Built(s) == [kind |-> "store", store |-> s]

\* the header names load_stores reads after the name test, in order
StoreKeys ==
    <<"MW4etd", "UY7F9", "W4Efsd", "W4Efsd (3)", "W4Efsd (4)", "W4Efsd (5)",
      "lcr4fd href", "UsdlK", "ah5Ghc", "ah5Ghc (2)">>

\* website=row.get("lcr4fd href", "").strip() or None
load_stores_website(cell) == OrNone(PyStr(strip(cell, Whitespace)))

\* review_count=clean_value(row.get("UY7F9", "").strip("()"))
load_stores_review(cell) == PyStr(clean_value(strip(cell, {"(", ")"})))

\* the lookup keyed by the cell as read, not stripped
load_stores_join_raw(imgs, cell) == images_get(imgs, cell)

\* store.image_url = images.get(map_url), map_url the stripped cell
load_stores_join(imgs, cell) == images_get(imgs, strip(cell, Whitespace))

\* the body of load_stores' loop for one row the DictReader yields
load_stores_row(row, imgs, existing) ==
    LET g(key) == row_get(Header, row, key)
        name == g("qBF1Pd")
        map_url == g("hfpxzc href")
        feature(key) == PyStr(clean_value(g(key).s))
    IN  IF IsNone(name) \/ IsNone(map_url) THEN Raise
        ELSE IF strip(name.s, Whitespace) = <<>> THEN Skip
        ELSE IF \E i \in 1..Len(StoreKeys) : IsNone(g(StoreKeys[i])) THEN Raise
        ELSE Built(
            [ name |-> PyStr(strip(name.s, Whitespace)),
              map_url |-> PyStr(strip(map_url.s, Whitespace)),
              rating |-> PyStr(clean_value(g("MW4etd").s)),
              review_count |-> load_stores_review(g("UY7F9").s),
              category |-> PyStr(clean_value(g("W4Efsd").s)),
              address |-> PyStr(clean_value(g("W4Efsd (3)").s)),
              status |-> PyStr(clean_value(g("W4Efsd (4)").s)),
              hours |-> PyStr(clean_value(g("W4Efsd (5)").s)),
              website |-> load_stores_website(g("lcr4fd href").s),
              phone |-> OrNone(PyStr(clean_value(g("UsdlK").s))),
              features |-> SelectSeq(<<feature("ah5Ghc"), feature("ah5Ghc (2)")>>,
                                     Truthy),
              image_url |-> load_stores_join(imgs, map_url.s),
              slug |-> PyStr(slugify(strip(name.s, Whitespace), existing)) ])

\* website_raw / website of parse_stores
parse_stores_website(row) ==
    LET website_raw == IF Len(row) > 10 THEN strip(Cell(row, 10), Whitespace) ELSE <<>>
    IN  IF startswith(website_raw, HTTP) THEN PyStr(website_raw) ELSE NoneV

\* image_url = image_lookup.get(map_url)
parse_stores_join(image_lookup, row) ==
    images_get(image_lookup, strip(Cell(row, 1), Whitespace))

\* for chunk in row[17:]: the cleaned chunks kept as services
parse_stores_services(row) ==
    LET chunks == IF Len(row) > 17 THEN SubSeq(row, 18, Len(row)) ELSE <<>>
        texts == [i \in 1..Len(chunks) |-> clean_text(PyStr(chunks[i]))]
    IN  SelectSeq(texts, LAMBDA x : Truthy(x) /\ x # PyStr(<<"mid">>))

\* the body of parse_stores' loop for one row, n = len(stores).
\* The Store's hours_note and services are the fields hours and features.
parse_stores_row(row, image_lookup, n) ==
    LET opt(k) == IF Len(row) > k THEN PyStr(Cell(row, k)) ELSE NoneV
    IN  IF Len(row) < 3 THEN Skip
        ELSE LET map_url == strip(Cell(row, 1), Whitespace)
                 name == strip(Cell(row, 2), Whitespace)
             IN  IF ~(map_url # <<>> /\ name # <<>> /\ startswith(map_url, HTTP))
                 THEN Skip
                 ELSE Built(
                     [ name |-> PyStr(name),
                       map_url |-> PyStr(map_url),
                       rating |-> IF Len(row) > 3
                                  THEN coerce_float(strip(Cell(row, 3), Whitespace))
                                  ELSE NoneV,
                       review_count |-> IF Len(row) > 4
                                        THEN coerce_int(Cell(row, 4))
                                        ELSE NoneV,
                       category |-> clean_text(opt(5)),
                       address |-> clean_text(opt(7)),
                       status |-> clean_text(opt(8)),
                       hours |-> clean_text(opt(9)),
                       website |-> parse_stores_website(row),
                       phone |-> clean_text(opt(16)),
                       features |-> parse_stores_services(row),
                       image_url |-> parse_stores_join(image_lookup, row),
                       slug |-> PyStr(sequential_slug(n + 1)) ])

----------------------------------------------------------------------------
(* The run *)

Init ==
    /\ variant \in {"build_site", "generate_pages"}
    /\ corpus \in Corpora
    /\ dataExists \in BOOLEAN
    /\ detailExists \in BOOLEAN
    /\ pc = "start"
    /\ err = "none"
    /\ images = {}
    /\ detail_read = <<>>
    /\ read = <<>>
    /\ stores = <<>>
    /\ origin = <<>>
    /\ seen_slugs = {}
    /\ idx = 1
    /\ run = 1
    /\ fs = EmptyFs

inputs == <<variant, corpus, dataExists, detailExists, run>>

Fail(exception) == pc' = "error" /\ err' = exception

(* ---- src/generate_pages.py: build_site ---- *)

\* load_images: a missing detail file gives the empty mapping
load_images_open ==
    /\ variant = "build_site" /\ pc = "start"
    /\ pc' = IF detailExists THEN "read_detail" ELSE "open_data"
    /\ UNCHANGED <<inputs, err, images, detail_read, read, stores, origin, seen_slugs,
                   idx, fs>>

\* load_images: one row of the detail file
load_images_row ==
    /\ variant = "build_site" /\ pc = "read_detail"
    /\ Len(detail_read) < MaxDetailRows
    /\ \E row \in DetailRows(corpus) :
         LET map_url == row_get(DetailHeader, row, "hfpxzc href")
             img == row_get(DetailHeader, row, "aoRNLd src")
         IN  /\ detail_read' = Append(detail_read, row)
             /\ IF row = <<>>
                THEN UNCHANGED <<pc, err, images>>
                ELSE IF IsNone(map_url) \/ IsNone(img)
                THEN Fail("AttributeError") /\ UNCHANGED images
                ELSE /\ UNCHANGED <<pc, err>>
                     /\ images' =
                          IF /\ strip(map_url.s, Whitespace) # <<>>
                             /\ strip(img.s, Whitespace) # <<>>
                          THEN images_set(images, strip(map_url.s, Whitespace),
                                          strip(img.s, Whitespace))
                          ELSE images
    /\ UNCHANGED <<inputs, read, stores, origin, seen_slugs, idx, fs>>

load_images_end ==
    /\ variant = "build_site" /\ pc = "read_detail"
    /\ pc' = "open_data"
    /\ UNCHANGED <<inputs, err, images, detail_read, read, stores, origin, seen_slugs,
                   idx, fs>>

\* load_stores reading a missing listing file as one without rows
load_stores_open_nocheck ==
    /\ variant = "build_site" /\ pc = "open_data"
    /\ pc' = IF dataExists THEN "read_data" ELSE "render_index"
    /\ UNCHANGED <<inputs, err, images, detail_read, read, stores, origin, seen_slugs,
                   idx, fs>>

\* load_stores: DATA_FILE.open
load_stores_open ==
    /\ variant = "build_site" /\ pc = "open_data"
    /\ IF dataExists
       THEN pc' = "read_data" /\ err' = err
       ELSE Fail("FileNotFoundError")
    /\ UNCHANGED <<inputs, images, detail_read, read, stores, origin, seen_slugs, idx, fs>>

\* load_stores: one row of the listing file (the DictReader drops a blank line)
load_stores_read ==
    /\ variant = "build_site" /\ pc = "read_data"
    /\ Len(read) < RowLimit(corpus)
    /\ \E row \in DataRows(corpus) :
         LET res == IF row = <<>> THEN Skip
                    ELSE load_stores_row(row, images, seen_slugs)
         IN  /\ read' = Append(read, row)
             /\ IF res.kind = "raise"
                THEN Fail("AttributeError") /\ UNCHANGED <<stores, origin, seen_slugs>>
                ELSE IF res.kind = "skip"
                THEN UNCHANGED <<pc, err, stores, origin, seen_slugs>>
                ELSE /\ UNCHANGED <<pc, err>>
                     /\ stores' = Append(stores, res.store)
                     /\ origin' = Append(origin, Len(read) + 1)
                     /\ seen_slugs' = seen_slugs \cup {res.store.slug.s}
    /\ UNCHANGED <<inputs, images, detail_read, idx, fs>>

load_stores_end ==
    /\ variant = "build_site" /\ pc = "read_data"
    /\ pc' = "render_index"
    /\ UNCHANGED <<inputs, err, images, detail_read, read, stores, origin, seen_slugs,
                   idx, fs>>

\* render_index: OUTPUT_DIR.mkdir, ensure_assets, index.html written
render_index ==
    /\ variant = "build_site" /\ pc = "render_index"
    /\ fs' = write_text(ensure_assets(mkdir(fs, Path("docs"), run), run),
                        Path("docs/index.html"), run)
    /\ pc' = "render_pages"
    /\ idx' = 1
    /\ UNCHANGED <<inputs, err, images, detail_read, read, stores, origin, seen_slugs>>

\* render_store_page leaving a detail document that is already there
render_store_page_keep ==
    /\ variant = "build_site" /\ pc = "render_pages"
    /\ idx <= Len(stores)
    /\ LET slug == stores[idx].slug.s
           made == mkdir(ensure_assets(mkdir(fs, Path("docs"), run), run),
                         SlugPath("docs/<slug>", slug), run)
       IN  fs' = IF SlugPath("docs/<slug>/index.html", slug) \in DOMAIN made
                 THEN made
                 ELSE write_text(made, SlugPath("docs/<slug>/index.html", slug), run)
    /\ idx' = idx + 1
    /\ UNCHANGED <<inputs, pc, err, images, detail_read, read, stores, origin, seen_slugs>>

\* render_store_page(stores[idx])
render_store_page ==
    /\ variant = "build_site" /\ pc = "render_pages"
    /\ idx <= Len(stores)
    /\ LET slug == stores[idx].slug.s
           made == mkdir(ensure_assets(mkdir(fs, Path("docs"), run), run),
                         SlugPath("docs/<slug>", slug), run)
       IN  fs' = write_text(made, SlugPath("docs/<slug>/index.html", slug), run)
    /\ idx' = idx + 1
    /\ UNCHANGED <<inputs, pc, err, images, detail_read, read, stores, origin, seen_slugs>>

build_site_done ==
    /\ variant = "build_site" /\ pc = "render_pages"
    /\ idx > Len(stores)
    /\ pc' = "done"
    /\ UNCHANGED <<inputs, err, images, detail_read, read, stores, origin, seen_slugs,
                   idx, fs>>

(* ---- src/scripts/generate_pages.py: generate_pages ---- *)

\* load_images: DETAIL_CSV.open and the header
scripts_load_images_open ==
    /\ variant = "generate_pages" /\ pc = "start"
    /\ IF detailExists
       THEN pc' = "read_detail" /\ err' = err
       ELSE Fail("FileNotFoundError")
    /\ UNCHANGED <<inputs, images, detail_read, read, stores, origin, seen_slugs, idx, fs>>

\* load_images: one row of the detail file
scripts_load_images_row ==
    /\ variant = "generate_pages" /\ pc = "read_detail"
    /\ Len(detail_read) < MaxDetailRows
    /\ \E row \in DetailRows(corpus) :
         /\ detail_read' = Append(detail_read, row)
         /\ images' =
              IF Len(row) < 2 THEN images
              ELSE LET map_url == strip(Cell(row, 0), Whitespace)
                       image_url == strip(Cell(row, 1), Whitespace)
                   IN  IF map_url # <<>> /\ image_url # <<>>
                       THEN images_set(images, map_url, image_url)
                       ELSE images
    /\ UNCHANGED <<inputs, pc, err, read, stores, origin, seen_slugs, idx, fs>>

scripts_load_images_end ==
    /\ variant = "generate_pages" /\ pc = "read_detail"
    /\ pc' = "open_data"
    /\ UNCHANGED <<inputs, err, images, detail_read, read, stores, origin, seen_slugs,
                   idx, fs>>

\* parse_stores: DATA_CSV.open and the header
parse_stores_open ==
    /\ variant = "generate_pages" /\ pc = "open_data"
    /\ IF dataExists
       THEN pc' = "read_data" /\ err' = err
       ELSE Fail("FileNotFoundError")
    /\ UNCHANGED <<inputs, images, detail_read, read, stores, origin, seen_slugs, idx, fs>>

\* parse_stores: one row of the listing file
parse_stores_read ==
    /\ variant = "generate_pages" /\ pc = "read_data"
    /\ Len(read) < RowLimit(corpus)
    /\ \E row \in DataRows(corpus) :
         LET res == parse_stores_row(row, images, Len(stores))
         IN  /\ read' = Append(read, row)
             /\ IF res.kind = "skip"
                THEN UNCHANGED <<stores, origin>>
                ELSE /\ stores' = Append(stores, res.store)
                     /\ origin' = Append(origin, Len(read) + 1)
    /\ UNCHANGED <<inputs, pc, err, images, detail_read, seen_slugs, idx, fs>>

parse_stores_end ==
    /\ variant = "generate_pages" /\ pc = "read_data"
    /\ pc' = "check"
    /\ UNCHANGED <<inputs, err, images, detail_read, read, stores, origin, seen_slugs,
                   idx, fs>>

\* generate_pages: the empty test, ensure_assets, STORES_DIR.mkdir
generate_pages_check ==
    /\ variant = "generate_pages" /\ pc = "check"
    /\ IF stores = <<>>
       THEN Fail("SystemExit") /\ UNCHANGED fs
       ELSE /\ pc' = "write_json" /\ err' = err
            /\ fs' = mkdir(scripts_ensure_assets(fs, run), Path("docs/stores"), run)
    /\ UNCHANGED <<inputs, images, detail_read, read, stores, origin, seen_slugs, idx>>

write_json ==
    /\ variant = "generate_pages" /\ pc = "write_json"
    /\ fs' = write_text(mkdir(fs, Path("docs/data"), run),
                        Path("docs/data/stores.json"), run)
    /\ pc' = "write_index"
    /\ UNCHANGED <<inputs, err, images, detail_read, read, stores, origin, seen_slugs, idx>>

\* (DOCS_DIR / "index.html").write_text(render_index(stores))
generate_pages_index ==
    /\ variant = "generate_pages" /\ pc = "write_index"
    /\ fs' = write_text(fs, Path("docs/index.html"), run)
    /\ pc' = "write_pages"
    /\ idx' = 1
    /\ UNCHANGED <<inputs, err, images, detail_read, read, stores, origin, seen_slugs>>

\* one pass of the loop over stores
generate_pages_store ==
    /\ variant = "generate_pages" /\ pc = "write_pages"
    /\ idx <= Len(stores)
    /\ LET slug == stores[idx].slug.s
       IN  fs' = write_text(mkdir(fs, SlugPath("docs/stores/<slug>", slug), run),
                            SlugPath("docs/stores/<slug>/index.html", slug), run)
    /\ idx' = idx + 1
    /\ UNCHANGED <<inputs, pc, err, images, detail_read, read, stores, origin, seen_slugs>>

generate_pages_done ==
    /\ variant = "generate_pages" /\ pc = "write_pages"
    /\ idx > Len(stores)
    /\ pc' = "done"
    /\ UNCHANGED <<inputs, err, images, detail_read, read, stores, origin, seen_slugs,
                   idx, fs>>

Next ==
    \/ load_images_open
    \/ load_images_row
    \/ load_images_end
    \/ load_stores_open
    \/ load_stores_read
    \/ load_stores_end
    \/ render_index
    \/ render_store_page
    \/ build_site_done
    \/ scripts_load_images_open
    \/ scripts_load_images_row
    \/ scripts_load_images_end
    \/ parse_stores_open
    \/ parse_stores_read
    \/ parse_stores_end
    \/ generate_pages_check
    \/ write_json
    \/ generate_pages_index
    \/ generate_pages_store
    \/ generate_pages_done

Spec == Init /\ [][Next]_vars

(* ---- the generator invoked again on the output tree a run has left ---- *)

\* the script is run again after a completed run: everything but the
\* output tree starts afresh, and the input files may hold other rows
rerun ==
    /\ pc = "done"
    /\ run < MaxRuns
    /\ run' = run + 1
    /\ pc' = "start"
    /\ images' = {}
    /\ detail_read' = <<>>
    /\ read' = <<>>
    /\ stores' = <<>>
    /\ origin' = <<>>
    /\ seen_slugs' = {}
    /\ idx' = 1
    /\ UNCHANGED <<variant, corpus, dataExists, detailExists, err, fs>>

InitRerun == Init /\ corpus = "rerun"

NextRerun == Next \/ rerun

SpecRerun == InitRerun /\ [][NextRerun]_vars

----------------------------------------------------------------------------
(* Properties *)

\* the listing row stores[i] was built from
RowOf(i) == read[origin[i]]

\* the cell of column k (counted from 0) of a row, "" when the row is too short
RawCell(row, k) == IF Len(row) > k THEN row[k + 1] ELSE <<>>

\* nothing under the output root was created or modified by this run
NoOutput == \A p \in DOMAIN fs : fs[p] # run

BeforeParsing == {"start", "read_detail", "open_data"}

\* C1: no two records produced in one run share a slug.
C1_SlugsUnique ==
    Cardinality({stores[i].slug : i \in 1..Len(stores)}) = Len(stores)

\* C1 witness: build_site has resolved a collision with a name that itself
\* ends in "-2": the names a, a-2, a received the slugs a, a-2, a-3.
C1_Witness ==
    /\ variant = "build_site"
    /\ \E i, j, k \in 1..Len(stores) :
         /\ i < j /\ j < k
         /\ stores[i].slug.s = <<"a">>
         /\ stores[j].name.s = <<"a", "-", "2">>
         /\ stores[k].name.s = <<"a">>
         /\ stores[k].slug.s = <<"a", "-", "3">>

\* the required-field test of the running variant, on a listing row
C2_Passes(row) ==
    /\ Len(row) >= 3
    /\ strip(row[3], Whitespace) # <<>>
    /\ variant = "generate_pages" =>
         /\ strip(row[2], Whitespace) # <<>>
         /\ startswith(strip(row[2], Whitespace), HTTP)

\* C2: the records are, in row order, exactly the rows read that pass the
\* variant's required-field test, each with the row's trimmed name.
C2_OneRecordPerPassingRow ==
    LET passing == SelectSeq(read, C2_Passes)
    IN  [i \in 1..Len(stores) |-> stores[i].name.s]
        = [i \in 1..Len(passing) |-> strip(passing[i][3], Whitespace)]

\* the optional text fields of a Store
TextFields == {"rating", "review_count", "category", "address", "status", "hours", "phone"}

CleanAgain(v) ==
    IF variant = "build_site"
    THEN (IF IsStr(v) THEN PyStr(clean_value(v.s)) ELSE v)
    ELSE (IF IsStr(v) \/ IsNone(v) THEN clean_text(v) ELSE v)

\* C3: cleaning is idempotent: cleaning a cleaned field returns it unchanged.
C3_CleanIdempotent ==
    \A i \in 1..Len(stores) :
        /\ \A f \in TextFields : CleanAgain(stores[i][f]) = stores[i][f]
        /\ \A k \in 1..Len(stores[i].features) :
             CleanAgain(stores[i].features[k]) = stores[i].features[k]

\* C4: a record whose map_url is a key of the image mapping has exactly the
\* mapped value as image_url; any other record has no image_url.
C4_JoinCorrect ==
    \A i \in 1..Len(stores) :
        LET s == stores[i]
        IN  \/ \E p \in images : p[1] = s.map_url.s /\ s.image_url = PyStr(p[2])
            \/ /\ \A p \in images : p[1] # s.map_url.s
               /\ s.image_url = NoneV

\* C4 witness: build_site has joined one record to its image and left a
\* record with the empty map_url without one.
C4_Witness ==
    /\ variant = "build_site"
    /\ \E i, j \in 1..Len(stores) :
         /\ stores[i].image_url = PyStr(IMG1)
         /\ stores[j].map_url = PyStr(<<>>)
         /\ stores[j].image_url = NoneV

\* C5: no optional text field of a record is stored as the empty string.
C5_NoEmptyString ==
    \A i \in 1..Len(stores) : \A f \in TextFields : stores[i][f] # PyStr(<<>>)

\* C6: when either input file is missing the run ends in error before
\* parsing and writes nothing.
C6_MissingInputFatal ==
    (~dataExists \/ ~detailExists) =>
        /\ NoOutput
        /\ pc \in BeforeParsing \cup {"error"}

\* C6 amended: a missing listing file, and in generate_pages a missing
\* detail file, ends the run in error with nothing written; in build_site a
\* missing detail file gives the empty image mapping and the run goes on.
C6_MissingInputFatal_Amended ==
    /\ (~dataExists \/ (variant = "generate_pages" /\ ~detailExists)) =>
         /\ NoOutput
         /\ pc \in BeforeParsing \cup {"error"}
    /\ (variant = "build_site" /\ ~detailExists) =>
         /\ images = {}
         /\ err # "FileNotFoundError" \/ ~dataExists

\* C6 witness: build_site with both files missing has got past load_images
\* and failed on opening the listing file.
C6_Witness ==
    /\ variant = "build_site" /\ ~dataExists /\ ~detailExists
    /\ pc = "error" /\ err = "FileNotFoundError"

\* C7: a run whose extractor produced no record never completes and writes
\* nothing.
C7_EmptyResultFatal == stores = <<>> => (NoOutput /\ pc # "done")

\* C8: no listing row raises an error: once the extractor has read a row,
\* the run has not failed on it.
C8_RowNeverFatal == read # <<>> => err # "AttributeError"

StripLeadingZeros(digits) ==
    LET z == lstrip(digits, {"0"}) IN IF z = <<>> THEN <<"0">> ELSE z

\* the record's review_count is the integer written by the digits of cell
IsDigitsOf(v, cell) ==
    LET digits == SelectSeq(cell, IsDigit)
    IN  IF digits = <<>> THEN v = NoneV
        ELSE /\ v.t = "int"
             /\ v.n >= 0
             /\ str_int(v.n) = StripLeadingZeros(digits)

\* C9: review_count is the non-negative integer formed by the digits of the
\* raw review-count cell, and absent when the cell has no digit.
C9_ReviewCountDigits ==
    \A i \in 1..Len(stores) :
        IsDigitsOf(stores[i].review_count, RawCell(RowOf(i), 4))

\* C10: a record has a website only if the trimmed raw website cell starts
\* with "http".
C10_WebsiteOnlyHttp ==
    \A i \in 1..Len(stores) :
        stores[i].website # NoneV =>
            startswith(strip(RawCell(RowOf(i), 10), Whitespace), HTTP)

\* a detail row that has both columns, non-empty after trimming
C11_Contributes(row) ==
    /\ Len(row) >= 2
    /\ strip(row[1], Whitespace) # <<>>
    /\ strip(row[2], Whitespace) # <<>>

\* the indices of the detail rows read that contribute the key k
C11_RowsOf(k) ==
    { i \in 1..Len(detail_read) :
        C11_Contributes(detail_read[i]) /\ strip(detail_read[i][1], Whitespace) = k }

\* C11: the mapping holds a key exactly when some detail row read has that
\* trimmed key with a non-empty trimmed key and value, and maps it to the
\* trimmed value of the last such row; other rows change nothing.
C11_LastWriteWins ==
    LET keys == { strip(detail_read[i][1], Whitespace) :
                    i \in { j \in 1..Len(detail_read) : C11_Contributes(detail_read[j]) } }
        last(k) == CHOOSE i \in C11_RowsOf(k) : \A j \in C11_RowsOf(k) : j <= i
    IN  images = { <<k, strip(detail_read[last(k)][2], Whitespace)>> : k \in keys }

\* C11 witness: generate_pages has read two rows for one key and holds the
\* second row's value.
C11_Witness ==
    /\ variant = "generate_pages"
    /\ detail_read = << <<HTTP1, IMG1>>, <<HTTP1, IMG2>> >>
    /\ images = { <<HTTP1, IMG2>> }

\* the paths of the output tree that are files
FileKinds ==
    { "docs/assets/style.css", "docs/index.html", "docs/<slug>/index.html",
      "docs/data/stores.json", "docs/stores/<slug>/index.html" }

IsFile(p) == p[1] \in FileKinds

\* the files an earlier run wrote and this run has not rewritten
StaleFiles == { p \in DOMAIN fs : IsFile(p) /\ fs[p] < run }

\* C12: when a re-run has completed, every file under the output root has
\* been written by it: none still holds what only an earlier run wrote.
C12_RerunOverwritesAll == pc = "done" => StaleFiles = {}

\* C12 amended: when a re-run has completed, the index document, the JSON
\* snapshot and the detail document of every slug the re-run produced have
\* been written by it; the files left from an earlier run are the
\* stylesheet (build_site writes it only when it is missing) and the detail
\* documents of slugs the re-run did not produce.
C12_RerunOverwritesAll_Amended ==
    pc = "done" =>
        LET slugs == { stores[i].slug.s : i \in 1..Len(stores) }
            page == IF variant = "build_site" THEN "docs/<slug>/index.html"
                    ELSE "docs/stores/<slug>/index.html"
        IN  /\ \A p \in StaleFiles :
                 \/ p = Path("docs/assets/style.css")
                 \/ p[1] = page /\ p[2] \notin slugs
            /\ Path("docs/index.html") \in DOMAIN fs
            /\ fs[Path("docs/index.html")] = run
            /\ \A s \in slugs :
                 /\ SlugPath(page, s) \in DOMAIN fs
                 /\ fs[SlugPath(page, s)] = run
            /\ variant = "generate_pages" =>
                 /\ Path("docs/data/stores.json") \in DOMAIN fs
                 /\ fs[Path("docs/data/stores.json")] = run

\* C12 witness: a re-run of build_site has completed with one record where
\* the earlier run had two: it rewrote the page of its slug and left the
\* stylesheet and the other slug's page as the earlier run wrote them.
C12_Witness ==
    /\ variant = "build_site" /\ pc = "done" /\ run = 2
    /\ Len(stores) = 1
    /\ fs[SlugPath("docs/<slug>/index.html", stores[1].slug.s)] = 2
    /\ Path("docs/assets/style.css") \in StaleFiles
    /\ \E p \in StaleFiles : p[1] = "docs/<slug>/index.html"

====
